---- MODULE Spec2Model ----
(***************************************************************************)
(* Mentone hockey data pipeline: the orchestrator (backend/app.py,         *)
(* backend/run_pipeline.py), the stage scripts (backend/scripts/*.py) and  *)
(* the cloud-function stage workers (backend/*_cf.py, functions/*_cf.py).  *)
(*                                                                         *)
(* The specifications of the module, each over its own part of the state:  *)
(*   SpecPipeline  one pipeline run after another on the trigger surfaces  *)
(*   SpecCli       the command run_pipeline.py with the user's Ctrl-C      *)
(*   SpecStore     the Games, Results, Teams and Players stages acting on  *)
(*                 the documents of the store                              *)
(*   SpecIds, SpecPlayers, SpecOrder                                       *)
(*                 the Games and Players stages over any card, over the    *)
(*                 players' pages, and over a work list of two teams       *)
(*   SpecRounds    the Games stage's scan of the round pages of a grade    *)
(*   SpecFetch     one call of make_request                                *)
(*   SpecJobs      the job records of runs started over HTTP               *)
(*   SpecClass     the classifiers of team type                            *)
(*   SpecGender    the classifiers of gender                               *)
(*   SpecBatch     a loop that writes through a WriteBatch                 *)
(*   SpecStale, SpecStaleLive                                              *)
(*                 the incremental runs selecting the grades to scan; the  *)
(*                 second with the clock advancing and the runs recurring  *)
(***************************************************************************)
EXTENDS Integers, Sequences, FiniteSets, TLC

VARIABLES
    \* ---- pipeline orchestrator
    surface,            \* trigger surface of the current run
    ordered_modules,    \* the stages in the order this run executes them
    progress,           \* job_status[job_id]["progress"]: <<[module, success]>>
    status,             \* job_status[job_id]["status"]
    error,              \* job_status[job_id]["error"]
    params,             \* the request: [dry_run]
    docs,               \* documents in the store: <<collection, id>>
    run_writes,         \* documents written by the current run
    zero_comps,         \* the competitions stage of this run found no competition
    exit_code,          \* exit code of run_pipeline.py ("none" until it exits)
    interrupted         \* the user has interrupted the command (KeyboardInterrupt)

pipeVars == <<surface, ordered_modules, progress, status, error, params,
              docs, run_writes, zero_comps, exit_code, interrupted>>

VARIABLES
    games,              \* collection "games": document id -> document
    teams,              \* the document of one team in collection "teams"
    players,            \* the document of one player in collection "players"
    now,                \* the clock, in days
    results_run         \* the Results run in progress: [mode, todo]

storeVars == <<games, teams, players, now, results_run>>

VARIABLES
    scan,               \* the Games stage scanning round pages: the loop's state
    grade_fetches       \* round pages fetched in this run, per grade

roundVars == <<scan, grade_fetches>>

VARIABLES
    fetch               \* one call of make_request(url): the requests sent so far

fetchVars == <<fetch>>

VARIABLES
    job_status,         \* app.job_status: job id -> the record kept under it
    runs,               \* the runs started over HTTP, in the order of their requests
    second              \* the wall clock, in seconds

jobVars == <<job_status, runs, second>>

VARIABLES
    item                \* the name last classified: [name, variant, team_type]

classVars == <<item>>

VARIABLES
    write_log           \* the last run over a work list: per work item, the
                        \* documents it wrote

workVars == <<write_log>>

VARIABLES
    bw                  \* a loop that writes through a batch: its counters

batchVars == <<bw>>

VARIABLES
    stale                 \* the grades collection as the incremental runs see it

staleVars == <<stale>>

\* a step of one component leaves the state of the others alone
OnlyPipeline == UNCHANGED <<storeVars, roundVars, fetchVars, jobVars, classVars, workVars, batchVars, staleVars>>

OnlyStore == UNCHANGED <<pipeVars, roundVars, fetchVars, jobVars, classVars, workVars, batchVars, staleVars>>

OnlyRounds == UNCHANGED <<pipeVars, storeVars, fetchVars, jobVars, classVars, workVars, batchVars, staleVars>>

OnlyFetch == UNCHANGED <<pipeVars, storeVars, roundVars, jobVars, classVars, workVars, batchVars, staleVars>>

OnlyJobs == UNCHANGED <<pipeVars, storeVars, roundVars, fetchVars, classVars, workVars, batchVars, staleVars>>

OnlyClass == UNCHANGED <<pipeVars, storeVars, roundVars, fetchVars, jobVars, workVars, batchVars, staleVars>>

OnlyBatch == UNCHANGED <<pipeVars, storeVars, roundVars, fetchVars, jobVars, classVars,
                         workVars, staleVars>>

OnlyStale == UNCHANGED <<pipeVars, storeVars, roundVars, fetchVars, jobVars, classVars,
                         workVars, batchVars>>

\* a stage run over its work list acts on the store and on the log of its writes
OnlyWork == UNCHANGED <<pipeVars, roundVars, fetchVars, jobVars, classVars, batchVars, staleVars>>

Range(s) == {s[i] : i \in DOMAIN s}

(***************************************************************************)
(* Bounds                                                                  *)
(***************************************************************************)
\* longest list of stages a caller of /run-pipeline or of the command names
MaxSel == 2
\* most words of a competition, grade or team name
MaxWords == 2
\* longest work list of a loop that writes through a batch
MaxItems == 402
\* most commits that fail in one run
MaxFailures == 1

MaxGrades == 2

(***************************************************************************)
(* Orchestrator                                                             *)
(***************************************************************************)
execution_order == <<"competitions", "teams", "games", "results", "players", "ladder">>

AVAILABLE_MODULES == <<"competitions", "teams", "games", "results", "players", "ladder">>

ModuleNames == Range(execution_order)

\* position of a stage in the canonical order
Rank(m) == CHOOSE i \in DOMAIN execution_order : execution_order[i] = m

\* the convenience bundles of app.py: run_setup, run_daily_update,
\* run_weekly_update, run_fixtures_update
Bundles == { <<"competitions", "teams">>,
             <<"results", "players", "ladder">>,
             <<"games", "results", "players", "ladder">>,
             <<"games">> }

\* run_full_async's own list (script names mapped to their stage names)
FullModules == <<"competitions", "teams", "games", "results", "players", "ladder">>

\* ordered_modules = [m for m in execution_order if m in modules]
OrderModules(ms) == SelectSeq(execution_order, LAMBDA m : m \in Range(ms))

\* "if not success and module in ["competitions", "teams"]"
IsCriticalAll(module) == TRUE
IsCritical(module) == module \in {"competitions", "teams"}

\* what a caller can name: non-empty lists of distinct stages, in any order
Selections ==
    UNION { { s \in [1..n -> ModuleNames] : \A i, j \in 1..n : i # j => s[i] # s[j] }
            : n \in 1..MaxSel }

\* the requests considered leave days, team_id and max_games unset
Requests == [dry_run : BOOLEAN]

(***************************************************************************)
(* The stage scripts, as far as a run of the orchestrator sees them: the   *)
(* exit code of main(), the documents it writes, and the documents whose   *)
(* write it computed (written, or logged as "[DRY RUN] Would save").       *)
(***************************************************************************)
\* The competitions index page: whether the fetch succeeded, the competition
\* blocks found and the grade links found; "season" says whether the name
\* contains the season year that main() filters by, comp_id is the
\* competition id in the href of the grade link.
IndexPages ==
    { [ok |-> TRUE,  comps |-> {}, grades |-> {}],
      [ok |-> FALSE, comps |-> {}, grades |-> {}],
      [ok |-> TRUE,  comps |-> {[id |-> "c1", season |-> TRUE]},
                     grades |-> {[id |-> "g1", season |-> TRUE, comp_id |-> "c1"]}],
      [ok |-> TRUE,  comps |-> {[id |-> "c1", season |-> FALSE]},
                     grades |-> {[id |-> "g1", season |-> TRUE, comp_id |-> "c1"]}] }

\* get_grade_details: competition_ref = competitions/{grade["comp_id"]}
competition_ref(grade_id) ==
    LET grade == CHOOSE g \in UNION {pg.grades : pg \in IndexPages} : g.id = grade_id
    IN  <<"competitions", grade.comp_id>>

\* what a stage meets: crash = initialize_firebase raises; index = the
\* competitions index page; found = the stage's pages list something to write
NoIndex == [ok |-> FALSE, comps |-> {}, grades |-> {}]

StageInputs(module) ==
    IF module = "competitions"
    THEN [crash : BOOLEAN, index : IndexPages, found : {FALSE}]
    ELSE [crash : BOOLEAN, index : {NoIndex}, found : BOOLEAN]

\* discover_competitions.main
DiscoverCompetitionsMain(inp, dry_run) ==
    LET competitions == IF inp.index.ok THEN inp.index.comps ELSE {}
        grades == IF inp.index.ok THEN inp.index.grades ELSE {}
        filtered_competitions == {c \in competitions : c.season}
        filtered_grades == {g \in grades : g.season}
    IN  IF ~dry_run /\ inp.crash THEN [rc |-> 1, writes |-> {}, zero |-> FALSE, computed |-> {}]
        ELSE IF competitions = {} THEN [rc |-> 1, writes |-> {}, zero |-> TRUE, computed |-> {}]
        \* get_competition_details reads competition["category"], a key that
        \* discover_competition_links never sets: KeyError, caught by main
        ELSE IF filtered_competitions # {} THEN [rc |-> 1, writes |-> {}, zero |-> FALSE, computed |-> {}]
        ELSE [rc |-> 0,
              writes |-> IF dry_run THEN {} ELSE {<<"grades", g.id>> : g \in filtered_grades},
              zero |-> FALSE,
              computed |-> {<<"grades", g.id>> : g \in filtered_grades}]

\* discover_teams.main: with --dry-run db is None and db.collection raises
DiscoverTeamsMain(inp, dry_run, store) ==
    IF dry_run \/ inp.crash THEN [rc |-> 1, writes |-> {}, zero |-> FALSE, computed |-> {}]
    ELSE LET found == IF inp.found /\ <<"grades", "g1">> \in store
                      THEN {<<"teams", "t1">>} ELSE {}
         IN  [rc |-> 0, writes |-> found, zero |-> FALSE, computed |-> found]

\* discover_games.main: with --dry-run the list of teams is empty
DiscoverGamesMain(inp, dry_run, store) ==
    IF dry_run THEN [rc |-> 0, writes |-> {}, zero |-> FALSE, computed |-> {}]
    ELSE IF inp.crash THEN [rc |-> 1, writes |-> {}, zero |-> FALSE, computed |-> {}]
    ELSE LET found == IF inp.found /\ <<"teams", "t1">> \in store
                      THEN {<<"games", "m1">>} ELSE {}
         IN  [rc |-> 0, writes |-> found, zero |-> FALSE, computed |-> found]

\* update_results.main: find_games_to_update catches the error of db = None
UpdateResultsMain(inp, dry_run, store) ==
    IF dry_run THEN [rc |-> 0, writes |-> {}, zero |-> FALSE, computed |-> {}]
    ELSE IF inp.crash THEN [rc |-> 1, writes |-> {}, zero |-> FALSE, computed |-> {}]
    ELSE LET found == IF inp.found /\ <<"games", "m1">> \in store
                      THEN {<<"games", "m1">>} ELSE {}
         IN  [rc |-> 0, writes |-> found, zero |-> FALSE, computed |-> found]

\* discover_players.main: with --dry-run db is None and db.collection raises
DiscoverPlayersMain(inp, dry_run, store) ==
    IF dry_run \/ inp.crash THEN [rc |-> 1, writes |-> {}, zero |-> FALSE, computed |-> {}]
    ELSE LET found == IF inp.found /\ <<"teams", "t1">> \in store
                      THEN {<<"players", "p1">>, <<"games", "m1">>} ELSE {}
         IN  [rc |-> 0, writes |-> found, zero |-> FALSE, computed |-> found]

\* update_ladder.main: with --dry-run db is None and db.collection raises
UpdateLadderMain(inp, dry_run, store) ==
    IF dry_run \/ inp.crash THEN [rc |-> 1, writes |-> {}, zero |-> FALSE, computed |-> {}]
    ELSE LET found == IF inp.found /\ <<"teams", "t1">> \in store
                      THEN {<<"teams", "t1">>} ELSE {}
         IN  [rc |-> 0, writes |-> found, zero |-> FALSE, computed |-> found]

StageMain(module, inp, dry_run, store) ==
    CASE module = "competitions" -> DiscoverCompetitionsMain(inp, dry_run)
      [] module = "teams"        -> DiscoverTeamsMain(inp, dry_run, store)
      [] module = "games"        -> DiscoverGamesMain(inp, dry_run, store)
      [] module = "results"      -> UpdateResultsMain(inp, dry_run, store)
      [] module = "players"      -> DiscoverPlayersMain(inp, dry_run, store)
      [] module = "ladder"       -> UpdateLadderMain(inp, dry_run, store)

\* app.run_pipeline_module: the script as a subprocess, "success" is
\* returncode == 0
run_pipeline_module(module, inp, req, store) == StageMain(module, inp, req.dry_run, store)

\* run_pipeline.run_module: main() in-process, success is result == 0
run_module(module, inp, req, store) == StageMain(module, inp, req.dry_run, store)

Idle == status # "running"

NextModule == ordered_modules[Len(progress) + 1]

\* the bundle endpoints and /run-pipeline: run_modules_in_order
StartRun(kind, ms, req) ==
    /\ Idle
    /\ surface' = kind
    /\ ordered_modules' = OrderModules(ms)
    /\ progress' = <<>>
    /\ status' = "running"
    /\ error' = ""
    /\ params' = req
    /\ run_writes' = {}
    /\ zero_comps' = FALSE
    /\ exit_code' = "none"
    /\ interrupted' = FALSE
    /\ UNCHANGED docs
    /\ OnlyPipeline

StartBundle == \E ms \in Bundles, req \in Requests : StartRun("bundle", ms, req)

StartMulti == \E ms \in Selections \cup {AVAILABLE_MODULES}, req \in Requests : StartRun("multi", ms, req)

\* /pipeline/full: run_full_pipeline
StartFull ==
    /\ \E req \in Requests :
        /\ Idle
        /\ surface' = "full"
        /\ ordered_modules' = FullModules
        /\ progress' = <<>>
        /\ status' = "running"
        /\ error' = ""
        /\ params' = req
        /\ run_writes' = {}
        /\ zero_comps' = FALSE
        /\ exit_code' = "none"
        /\ interrupted' = FALSE
        /\ UNCHANGED docs
    /\ OnlyPipeline

\* run_pipeline.main: get_modules_selection returns the stages in the order
\* the numbers were typed ('A' gives AVAILABLE_MODULES)
StartCli ==
    /\ \E ms \in Selections \cup {AVAILABLE_MODULES}, dry \in BOOLEAN :
        /\ Idle
        /\ surface' = "cli"
            /\ ordered_modules' = ms
        /\ progress' = <<>>
        /\ status' = "running"
        /\ error' = ""
        /\ params' = [dry_run |-> dry]
        /\ run_writes' = {}
        /\ zero_comps' = FALSE
        /\ exit_code' = "none"
        /\ interrupted' = FALSE
        /\ UNCHANGED docs
    /\ OnlyPipeline

\* one iteration of "for module in ordered_modules" in run_multi_async
StepMulti ==
    /\ status = "running"
    /\ surface \in {"bundle", "multi"}
    /\ Len(progress) < Len(ordered_modules)
    /\ \E inp \in StageInputs(NextModule) :
        LET module == NextModule
            result == run_pipeline_module(module, inp, params, docs)
            success == result.rc = 0
        IN  /\ progress' = Append(progress, [module |-> module, success |-> success])
            /\ docs' = docs \cup result.writes
            /\ run_writes' = run_writes \cup result.writes
            /\ zero_comps' = (zero_comps \/ result.zero)
            /\ IF ~success /\ IsCritical(module)
               THEN /\ status' = "failed"
                    /\ error' = module
               ELSE UNCHANGED <<status, error>>
    /\ UNCHANGED <<surface, ordered_modules, params, exit_code, interrupted>>
    /\ OnlyPipeline

\* after the loop of run_multi_async: "Calculate final status"
FinishMulti ==
    /\ status = "running"
    /\ surface \in {"bundle", "multi"}
    /\ Len(progress) = Len(ordered_modules)
    /\ status' = "completed"
    /\ UNCHANGED <<surface, ordered_modules, progress, error, params,
                   docs, run_writes, zero_comps, exit_code, interrupted>>
    /\ OnlyPipeline

\* one iteration of "for i, module in enumerate(modules)" in run_full_async:
\* "Continue with other modules even if one fails"
StepFull ==
    /\ status = "running"
    /\ surface = "full"
    /\ Len(progress) < Len(ordered_modules)
    /\ \E inp \in StageInputs(NextModule) :
        LET module == NextModule
            result == run_pipeline_module(module, inp, params, docs)
        IN  /\ progress' = Append(progress, [module |-> module, success |-> result.rc = 0])
            /\ docs' = docs \cup result.writes
            /\ run_writes' = run_writes \cup result.writes
            /\ zero_comps' = (zero_comps \/ result.zero)
    /\ UNCHANGED <<surface, ordered_modules, status, error, params, exit_code, interrupted>>
    /\ OnlyPipeline

\* after the loop of run_full_async: "Determine overall success"
FinishFull ==
    /\ status = "running"
    /\ surface = "full"
    /\ Len(progress) = Len(ordered_modules)
    /\ status' = "completed"
    /\ UNCHANGED <<surface, ordered_modules, progress, error, params,
                   docs, run_writes, zero_comps, exit_code, interrupted>>
    /\ OnlyPipeline

\* one iteration of "for module in selected_modules" in run_pipeline.main
StepCli ==
    /\ status = "running"
    /\ surface = "cli"
    /\ Len(progress) < Len(ordered_modules)
    /\ \E inp \in StageInputs(NextModule) :
        LET module == NextModule
            result == run_module(module, inp, params, docs)
        IN  /\ progress' = Append(progress, [module |-> module, success |-> result.rc = 0])
            /\ docs' = docs \cup result.writes
            /\ run_writes' = run_writes \cup result.writes
            /\ zero_comps' = (zero_comps \/ result.zero)
    /\ UNCHANGED <<surface, ordered_modules, status, error, params, exit_code, interrupted>>
    /\ OnlyPipeline

\* run_pipeline.main after the loop: "if failed_modules > 0: return 1"
FinishCli ==
    /\ status = "running"
    /\ surface = "cli"
    /\ Len(progress) = Len(ordered_modules)
    /\ LET failed_modules == Cardinality({i \in DOMAIN progress : ~progress[i].success})
       IN  exit_code' = IF failed_modules > 0 THEN 1 ELSE 0
    /\ status' = "exited"
    /\ UNCHANGED <<surface, ordered_modules, progress, error, params,
                   docs, run_writes, zero_comps, interrupted>>
    /\ OnlyPipeline

\* Ctrl-C while a stage runs: the stage's main catches KeyboardInterrupt and
\* returns 130, run_module reports the stage as failed, and the loop of
\* run_pipeline.main goes on
InterruptStageCli ==
    /\ status = "running"
    /\ surface = "cli"
    /\ Len(progress) < Len(ordered_modules)
    /\ progress' = Append(progress, [module |-> NextModule, success |-> FALSE])
    /\ interrupted' = TRUE
    /\ UNCHANGED <<surface, ordered_modules, status, error, params,
                   docs, run_writes, zero_comps, exit_code>>
    /\ OnlyPipeline

\* Ctrl-C between two stages (in time.sleep(1)): KeyboardInterrupt leaves
\* main and "sys.exit(130)" runs
InterruptSleepCli ==
    /\ status = "running"
    /\ surface = "cli"
    /\ Len(progress) > 0
    /\ exit_code' = 130
    /\ status' = "exited"
    /\ interrupted' = TRUE
    /\ UNCHANGED <<surface, ordered_modules, progress, error, params,
                   docs, run_writes, zero_comps>>
    /\ OnlyPipeline

InitPipeline ==
    /\ surface = "none"
    /\ ordered_modules = <<>>
    /\ progress = <<>>
    /\ status = "none"
    /\ error = ""
    /\ params = [dry_run |-> FALSE]
    /\ docs = {}
    /\ run_writes = {}
    /\ zero_comps = FALSE
    /\ exit_code = "none"
    /\ interrupted = FALSE

NextPipeline ==
    \/ StartBundle
    \/ StartMulti
    \/ StartFull
    \/ StartCli
    \/ StepMulti
    \/ FinishMulti
    \/ StepFull
    \/ FinishFull
    \/ StepCli
    \/ FinishCli

\* the command run_pipeline.py alone, with the user's Ctrl-C
NextCli ==
    \/ StartCli
    \/ StepCli
    \/ FinishCli
    \/ InterruptStageCli
    \/ InterruptSleepCli


(***************************************************************************)
(* The store and the stages that write Game, Team and Player documents     *)
(***************************************************************************)

\* latest instant of the clock
MaxNow == 1
\* highest value of a player's aggregated statistic
MaxStat == 2
\* widest days-back window a Results run asks for
MaxDaysBack == 1

\* a field that a document does not have, and a field holding None
AbsentInt == -2
NullInt == -1
Absent == "absent"
Null == "null"

IntFields == {"id", "url", "date", "created_at", "updated_at", "results_retrieved_at",
              "home_team.score", "away_team.score", "team_id"}

StrFields == {"venue", "status", "mentone_playing", "home_team.name", "away_team.name",
              "home_team.club", "away_team.club",
              "home_team.score_raw", "away_team.score_raw", "winner_text",
              "mentone_result", "results_script_version"}

GameFields == IntFields \cup StrFields

\* updated_at and results_retrieved_at are kept up to their presence: the
\* instant written is not told apart
Stamp(t) == 0

NoDoc == [f \in GameFields |-> IF f \in IntFields THEN AbsentInt ELSE Absent]

Exists(doc) == doc["id"] # AbsentInt

\* DocumentReference.set(data, merge=True): the leaves of data overwrite,
\* every other field keeps its value; a missing document is created
SetMerge(doc, data) ==
    [f \in GameFields |-> IF f \in DOMAIN data THEN data[f] ELSE doc[f]]

\* DocumentReference.set(data) without merge: the document becomes data
SetReplace(doc, data) ==
    [f \in GameFields |-> IF f \in DOMAIN data THEN data[f] ELSE NoDoc[f]]

\* DocumentReference.update(data): as set-merge on the (dotted) paths given,
\* but a missing document raises NotFound and nothing is written
Update(doc, data) == IF Exists(doc) THEN SetMerge(doc, data) ELSE doc

\* ---- the fixture (round) page of a grade: one game card
\* ids in the href of a card's details link, and values a fallback id takes
ExternalIds == {1001}
HashIds == {77}
GameKeys == ExternalIds \cup HashIds

Dates == 0..MaxNow
Sides == {"home", "none"}
NoScore == <<NullInt, NullInt>>
\* the score lines pages show: a win, a loss and a draw of the home side
Scores == {<<1, 0>>, <<0, 1>>, <<0, 0>>}

\* ids of the documents of two teams that play in the same grade
TeamId == 501

OtherTeamId == 502

WorkTeams == {TeamId, OtherTeamId}

\* link: the card has a details link; gid: the id in its href; side: where
\* Mentone plays; score: the bold score on the card, if any; team: the team
\* whose scan of the grade's round pages met the card
CardsOf(team_ids) == [link : BOOLEAN, gid : ExternalIds, date : Dates, side : Sides,
                      score : {NoScore} \cup {<<1, 0>>}, team : team_ids]

Cards == CardsOf({TeamId})

HomeName(side) == IF side = "home" THEN "Mentone Hockey Club" ELSE "Rival Hockey Club"
AwayName(side) == "Other Hockey Club"

\* is_mentone_team: "mentone" in team_name.lower()
is_mentone_team(name) == name = "Mentone Hockey Club"

Bool(b) == IF b THEN "true" ELSE "false"

\* game_url.split("/")[-1] and re.search(r'/game/(\d+)', game_path)
GameIdOf(card, h) == IF card.link THEN card.gid ELSE h

CardStatus(card) == IF card.score = NoScore THEN "scheduled" ELSE "completed"

\* discover_games_cf.discover_games_for_team_cf: game_entry
game_entry(card, h, t) ==
    ("id" :> GameIdOf(card, h)) @@
    ("team_id" :> card.team) @@
    ("url" :> IF card.link THEN card.gid ELSE NullInt) @@
    ("date" :> card.date) @@
    ("venue" :> "Mentone Grammar Playing Fields") @@
    ("status" :> CardStatus(card)) @@
    ("mentone_playing" :> Bool(is_mentone_team(HomeName(card.side))
                               \/ is_mentone_team(AwayName(card.side)))) @@
    ("updated_at" :> Stamp(t)) @@
    ("created_at" :> t) @@
    ("home_team.name" :> HomeName(card.side)) @@
    ("home_team.score" :> card.score[1]) @@
    ("away_team.name" :> AwayName(card.side)) @@
    ("away_team.score" :> card.score[2])

\* discover_games.discover_games_for_team: game (the score keys only when a
\* score was parsed)
game(card, h, t) ==
    LET base == ("id" :> GameIdOf(card, h)) @@
                ("url" :> IF card.link THEN card.gid ELSE NullInt) @@
                ("date" :> card.date) @@
                ("venue" :> "Mentone Grammar Playing Fields") @@
                ("status" :> CardStatus(card)) @@
                ("mentone_playing" :> Bool(is_mentone_team(HomeName(card.side))
                                           \/ is_mentone_team(AwayName(card.side)))) @@
                ("updated_at" :> Stamp(t)) @@
                ("created_at" :> t) @@
                ("home_team.name" :> HomeName(card.side)) @@
                ("home_team.club" :> HomeName(card.side)) @@
                ("away_team.name" :> AwayName(card.side)) @@
                ("away_team.club" :> AwayName(card.side))
    IN  IF card.score = NoScore THEN base
        ELSE base @@ ("home_team.score" :> card.score[1]) @@
                     ("away_team.score" :> card.score[2])

\* discover_games_cf.create_or_update_game_cf
create_or_update_game_cf(doc, game_details, t) ==
    LET created == IF Exists(doc) /\ doc["created_at"] # AbsentInt
                   THEN doc["created_at"] ELSE t
        details == ("updated_at" :> Stamp(t)) @@ ("created_at" :> created) @@ game_details
    IN  SetMerge(doc, details)

\* discover_games.create_or_update_game
create_or_update_game(doc, game_dict) == SetMerge(doc, game_dict)

Quiet == results_run.mode = "none"

\* the cards whose details link is present
LinkedCards == {card \in Cards : card.link}

\* the Games stage (cloud function) over round pages showing one card
GamesRunCF(gs, card, h, t) ==
    LET entry == game_entry(card, h, t)
    IN  [gs EXCEPT ![entry["id"]] = create_or_update_game_cf(@, entry, t)]

\* the Games stage (script) over round pages showing one card
GamesRunScript(gs, card, h, t) ==
    LET g == game(card, h, t)
    IN  [gs EXCEPT ![g["id"]] = create_or_update_game(@, g)]

\* discover_games_cf: Mentone teams (mentone_only) skip the cards of games
\* Mentone does not play
GamesStageCF(cards) ==
    /\ Quiet
    /\ \E card \in cards, h \in HashIds, mentone_only \in BOOLEAN :
        /\ mentone_only => card.side # "none"
        /\ games' = GamesRunCF(games, card, h, now)
    /\ UNCHANGED <<teams, players, now, results_run>>
    /\ OnlyStore

\* discover_games.main: the teams read are those with is_home_club
GamesStageScript(cards) ==
    /\ Quiet
    /\ \E card \in cards, h \in HashIds :
        /\ card.side # "none"
        /\ games' = GamesRunScript(games, card, h, now)
    /\ UNCHANGED <<teams, players, now, results_run>>
    /\ OnlyStore

\* ---- teams
NoTeam == [id |-> AbsentInt, created_at |-> AbsentInt, updated_at |-> AbsentInt]

\* discover_teams.create_or_update_team: set(team, merge=True) with the
\* created_at and updated_at that discover_teams_for_grade stamped
create_or_update_team(doc, t) == [id |-> TeamId, created_at |-> t, updated_at |-> t]

TeamsStage ==
    /\ Quiet
    /\ teams' = create_or_update_team(teams, now)
    /\ UNCHANGED <<games, players, now, results_run>>
    /\ OnlyStore

\* ---- players
NoPlayer == [id |-> AbsentInt, goals |-> 0, games_played |-> 0, games |-> {},
             teams |-> <<>>, created_at |-> AbsentInt, updated_at |-> AbsentInt]

PlayerId == 9001

\* what the statistics page of a team shows for the player
StatsPagesOf(team_ids) == [goals : 0..1, games : SUBSET ExternalIds, team : team_ids]

StatsPages == StatsPagesOf({TeamId})

\* discover_players.create_or_update_player and
\* discover_players_cf.create_or_update_player_cf: an existing player has the
\* page's figures added to the stored ones, and the team appended to the
\* list "teams" unless it is listed
create_or_update_player(doc, page, t) ==
    IF doc.id # AbsentInt
    THEN [doc EXCEPT !.goals = @ + page.goals,
                     !.games_played = @ + Cardinality(page.games),
                     !.games = @ \cup page.games,
                     !.teams = IF page.team \in Range(@) THEN @ ELSE Append(@, page.team),
                     !.updated_at = t]
    ELSE [id |-> PlayerId, goals |-> page.goals, games_played |-> Cardinality(page.games),
          games |-> page.games, teams |-> <<page.team>>, created_at |-> t, updated_at |-> t]

\* discover_players.discover_players_for_team: game_data, set with merge
player_game_data(gid, t) ==
    ("id" :> gid) @@ ("updated_at" :> Stamp(t)) @@ ("created_at" :> t)

\* the Players stage over one statistics page: the player, then the games
PlayersRunGames(gs, page, t) ==
    [k \in GameKeys |-> IF k \in page.games
                        THEN SetMerge(gs[k], player_game_data(k, t))
                        ELSE gs[k]]

PlayersStage ==
    /\ Quiet
    /\ \E page \in StatsPages :
        /\ players.goals + page.goals <= MaxStat
        /\ players.games_played + Cardinality(page.games) <= MaxStat
        /\ players' = create_or_update_player(players, page, now)
        /\ games' = PlayersRunGames(games, page, now)
    /\ UNCHANGED <<teams, now, results_run>>
    /\ OnlyStore

\* ---- a stage over its work list: the teams whose documents the query
\* returned, in the order it returned them
WorkOrders == { w \in [1..Cardinality(WorkTeams) -> WorkTeams] :
                  \A i, j \in DOMAIN w : i # j => w[i] # w[j] }

\* discover_games_cf: "for i, team_data in enumerate(teams_to_process)"; the
\* teams share a grade, so each scan meets the same card
RECURSIVE GamesWorkCF(_, _, _, _, _)
GamesWorkCF(gs, work, card, h, t) ==
    IF work = <<>> THEN gs
    ELSE GamesWorkCF(GamesRunCF(gs, [card EXCEPT !.team = Head(work)], h, t),
                     Tail(work), card, h, t)

\* discover_games.main: "for i, team in enumerate(teams)"
RECURSIVE GamesWorkScript(_, _, _, _, _)
GamesWorkScript(gs, work, card, h, t) ==
    IF work = <<>> THEN gs
    ELSE GamesWorkScript(GamesRunScript(gs, [card EXCEPT !.team = Head(work)], h, t),
                         Tail(work), card, h, t)

\* the statistics page of each team of the work list
TeamPages == { pages \in [WorkTeams -> StatsPagesOf(WorkTeams)] :
                 \A team \in WorkTeams : pages[team].team = team }

\* discover_players.main and discover_players_cf: for each team, the players
\* of its statistics page are saved
RECURSIVE PlayersWork(_, _, _, _)
PlayersWork(doc, work, pages, t) ==
    IF work = <<>> THEN doc
    ELSE PlayersWork(create_or_update_player(doc, pages[Head(work)], t),
                     Tail(work), pages, t)

\* the documents each team of the work list writes: the Game of the card
GameWrites(work, card, h) == [i \in DOMAIN work |-> {<<"games", GameIdOf(card, h)>>}]

\* the documents each team of the work list writes: the Player and the Games
\* of the team's statistics page
PlayerWrites(work, pages) ==
    [i \in DOMAIN work |-> {<<"players", PlayerId>>}
                             \cup {<<"games", g>> : g \in pages[work[i]].games}]

InitWork == write_log = <<>>

GamesWorkListCF ==
    /\ Quiet
    /\ \E work \in WorkOrders, card \in LinkedCards, h \in HashIds, mentone_only \in BOOLEAN :
        /\ mentone_only => card.side # "none"
        /\ games' = GamesWorkCF(games, work, card, h, now)
        /\ write_log' = GameWrites(work, card, h)
    /\ UNCHANGED <<teams, players, now, results_run>>
    /\ OnlyWork

GamesWorkListScript ==
    /\ Quiet
    /\ \E work \in WorkOrders, card \in LinkedCards, h \in HashIds :
        /\ card.side # "none"
        /\ games' = GamesWorkScript(games, work, card, h, now)
        /\ write_log' = GameWrites(work, card, h)
    /\ UNCHANGED <<teams, players, now, results_run>>
    /\ OnlyWork

PlayersWorkList ==
    /\ Quiet
    /\ \E work \in WorkOrders, pages \in TeamPages :
        LET after == PlayersWork(players, work, pages, now)
        IN  /\ after.goals <= MaxStat
            /\ after.games_played <= MaxStat
            /\ players' = after
            /\ write_log' = PlayerWrites(work, pages)
    /\ UNCHANGED <<games, teams, now, results_run>>
    /\ OnlyWork

\* time passes
Tick ==
    /\ Quiet
    /\ now < MaxNow
    /\ now' = now + 1
    /\ UNCHANGED <<games, teams, players, results_run>>
    /\ OnlyStore

NoRun == [mode |-> "none", todo |-> {}]

\* the run record once the games in todo are left to look at
RunOver(mode, todo) == IF todo = {} THEN NoRun ELSE [mode |-> mode, todo |-> todo]

\* ---- the Results stage
\* What a game's detail page holds, as far as the two extractors read it:
\*   ok        the fetch returned the page
\*   h1        the h1.h2.mb-0 heading: none, numeric ("1 - 0"), raw (two
\*             non-numeric parts), malformed (not two parts)
\*   score     the numbers of a numeric heading
\*   winner    the h2.h4 line ("Mentone win!") is present
\*   term      the special term in the page text, if any
\*   cls       an element of class .game-score/.match-score/.score/.result:
\*             none, digits (its text holds the score), text (no digit pair)
\*   clock     some div/p/span/td holds a digit pair such as a time "14:30"
\*   indicator the page text holds "final score", "result", "match complete"
\*             or "full time"
\*   ctx       whom the words before "forfeit" name: home, away, other, none
special_status_terms == <<"forfeit", "cancelled", "postponed", "abandoned", "washed out">>

forfeit_terms == <<"forfeit", "cancelled", "postponed", "abandoned">>

H1Kinds == {"none", "numeric", "raw", "malformed"}

ResultPages ==
    { pg \in [ok : BOOLEAN, h1 : H1Kinds, score : Scores, winner : BOOLEAN,
              term : {"none"} \cup Range(special_status_terms),
              cls : {"none", "digits", "text"}, clock : BOOLEAN,
              indicator : BOOLEAN, ctx : {"home", "away", "other", "none"}] :
        /\ (pg.h1 # "numeric" /\ pg.cls # "digits") => pg.score = <<0, 0>>
        /\ pg.term # "forfeit" => pg.ctx = "none"
        /\ ~pg.ok => /\ pg.h1 = "none" /\ ~pg.winner /\ pg.term = "none"
                     /\ pg.cls = "none" /\ ~pg.clock /\ ~pg.indicator }

\* the pages met by the Results runs of the store specification: one score
\* line, and the terms forfeit and postponed
StorePages == {pg \in ResultPages : /\ pg.score \in {<<0, 0>>, <<1, 0>>}
                                    /\ pg.term \in {"none", "forfeit", "postponed"}
                                    /\ pg.ctx \in {"none", "home"}}

\* the pages as update_results_cf tells them apart
PagesCF == {pg \in StorePages : pg.cls = "none" /\ ~pg.clock /\ ~pg.indicator
                                /\ pg.ctx = "none"}

\* the pages as update_results.py tells them apart
PagesScript == {pg \in StorePages : ~pg.winner /\ pg.h1 \in {"none", "numeric"}}

\* the numbers of a time of day read as a score
ClockScore == <<14, 30>>

NoPayload == <<>>

MentoneResult(mine, theirs) ==
    IF mine > theirs THEN "win" ELSE IF mine < theirs THEN "loss" ELSE "draw"

\* update_results_cf.extract_game_result_from_page_cf
extract_game_result_from_page_cf(pg, doc) ==
    LET numeric == pg.h1 = "numeric"
        raw == pg.h1 = "raw"
        home_score_val == IF numeric THEN pg.score[1] ELSE NullInt
        away_score_val == IF numeric THEN pg.score[2] ELSE NullInt
        changed1 == numeric \/ raw
        changed2 == changed1 \/ pg.winner
        special == home_score_val = NullInt /\ ~changed2 /\ pg.term # "none"
        status_changed_in_scrape == changed2 \/ special
        st == IF changed2 THEN "completed" ELSE pg.term
        p_status == ("status" :> st)
        p_raw == IF raw THEN ("home_team.score_raw" :> "raw") @@ ("away_team.score_raw" :> "raw")
                 ELSE <<>>
        p_winner == IF pg.winner THEN ("winner_text" :> "winner") ELSE <<>>
        p_score == IF st = "completed" /\ ~raw
                   THEN ("home_team.score" :> home_score_val) @@
                        ("away_team.score" :> away_score_val)
                   ELSE <<>>
        p_result == IF st = "completed" /\ numeric
                    THEN IF is_mentone_team(doc["home_team.name"])
                         THEN ("mentone_result" :> MentoneResult(home_score_val, away_score_val))
                         ELSE IF is_mentone_team(doc["away_team.name"])
                         THEN ("mentone_result" :> MentoneResult(away_score_val, home_score_val))
                         ELSE <<>>
                    ELSE <<>>
    IN  IF ~pg.ok \/ ~status_changed_in_scrape THEN NoPayload
        ELSE p_status @@ p_raw @@ p_winner @@ p_score @@ p_result

\* update_results_cf.update_game_in_firestore_cf
update_game_in_firestore_cf(doc, result_payload, t) ==
    IF result_payload = NoPayload THEN doc
    ELSE Update(doc, result_payload @@ ("results_retrieved_at" :> Stamp(t))
                                    @@ ("results_script_version" :> "cf-1.0"))

\* update_results.update_game_result: the scores it reads off the page
ScriptScores(pg, doc) ==
    IF pg.cls = "digits" \/ (pg.cls = "none" /\ pg.h1 = "numeric") THEN pg.score
    ELSE IF pg.cls = "none" /\ pg.clock THEN ClockScore
    ELSE IF pg.cls = "text" /\ pg.term = "forfeit" /\ pg.ctx = "home" THEN <<0, 3>>
    ELSE IF pg.cls = "text" /\ pg.term = "forfeit" /\ pg.ctx = "away" THEN <<3, 0>>
    ELSE IF pg.cls = "text" /\ pg.term = "forfeit" /\ pg.ctx = "other" THEN <<0, 0>>
    ELSE NoScore

\* update_results.update_game_result followed by the choice of update_data
\* in update_game_in_firestore
update_game_result(pg, doc, t) ==
    LET score_elements == pg.cls # "none" \/ pg.h1 = "numeric" \/ pg.clock
        sc == ScriptScores(pg, doc)
        existing == IF doc["status"] = Absent THEN "scheduled" ELSE doc["status"]
        st == IF sc = NoScore THEN existing ELSE "completed"
        p_result == IF st = "completed" /\ sc # NoScore
                    THEN IF doc["home_team.club"] = "Mentone"
                         THEN ("mentone_result" :> MentoneResult(sc[1], sc[2]))
                         ELSE IF doc["away_team.club"] = "Mentone"
                         THEN ("mentone_result" :> MentoneResult(sc[2], sc[1]))
                         ELSE <<>>
                    ELSE <<>>
        maps == [f \in {"home_team.name", "home_team.club", "home_team.score_raw",
                        "away_team.name", "away_team.club", "away_team.score_raw"}
                 |-> doc[f]]
    IN  IF ~pg.ok THEN NoPayload
        ELSE IF ~score_elements
        THEN IF pg.indicator
             THEN ("status" :> "completed") @@ ("updated_at" :> Stamp(t)) @@
                  ("home_team.score" :> NullInt) @@ ("away_team.score" :> NullInt) @@ maps
             ELSE NoPayload
        ELSE ("status" :> st) @@ ("updated_at" :> Stamp(t)) @@
             ("home_team.score" :> sc[1]) @@ ("away_team.score" :> sc[2]) @@
             maps @@ p_result

\* update_results.update_game_in_firestore
update_game_in_firestore(doc, update_data) ==
    IF update_data = NoPayload THEN doc ELSE Update(doc, update_data)

InWindow(doc, t, days_back) ==
    /\ Exists(doc)
    /\ doc["mentone_playing"] = "true"
    /\ doc["date"] # AbsentInt
    /\ doc["date"] >= t - days_back
    /\ doc["date"] <= t

\* limit_games of the cloud function when the request names none
DEFAULT_LIMIT_GAMES == 10

\* order_by("date", DESCENDING).limit(n): the n latest, ties in any order
Latest(gs, S, n) ==
    IF Cardinality(S) <= n THEN {S}
    ELSE { T \in SUBSET S : /\ Cardinality(T) = n
                            /\ \A a \in T, b \in S \ T : gs[a]["date"] >= gs[b]["date"] }

\* update_results_cf: the query for the games to check
games_to_check(gs, t, days_back, force_update) ==
    Latest(gs,
           { k \in GameKeys :
               /\ InWindow(gs[k], t, days_back)
               /\ force_update \/ gs[k]["status"] \in {"scheduled", "unknown_outcome", "postponed"} },
           DEFAULT_LIMIT_GAMES)

\* update_results.find_games_to_update
find_games_to_update(gs, t, days_back) ==
    LET completed_game_ids == {k \in GameKeys : InWindow(gs[k], t, days_back)
                                                /\ gs[k]["status"] = "completed"}
    IN  { k \in GameKeys : /\ InWindow(gs[k], t, days_back)
                           /\ gs[k]["status"] = "scheduled"
                           /\ k \notin completed_game_ids }

\* update_results_cf up to the loop over games_to_check
ResultsStartCF ==
    /\ Quiet
    /\ \E days_back \in 0..MaxDaysBack, force_update \in BOOLEAN :
        \E sel \in games_to_check(games, now, days_back, force_update) :
            results_run' = RunOver("cf", sel)
    /\ UNCHANGED <<games, teams, players, now>>
    /\ OnlyStore

\* one iteration of the loop of update_results_cf
ResultsStepCF ==
    /\ results_run.mode = "cf"
    /\ \E k \in results_run.todo, pg \in PagesCF :
        /\ games' = [games EXCEPT ![k] =
                        update_game_in_firestore_cf(@,
                            extract_game_result_from_page_cf(pg, games[k]), now)]
        /\ results_run' = RunOver(results_run.mode, results_run.todo \ {k})
    /\ UNCHANGED <<teams, players, now>>
    /\ OnlyStore

\* update_results.main up to the loop over the games found
ResultsStartScript ==
    /\ Quiet
    /\ \E days_back \in 0..MaxDaysBack :
        LET sel == find_games_to_update(games, now, days_back)
        IN  results_run' = RunOver("script", sel)
    /\ UNCHANGED <<games, teams, players, now>>
    /\ OnlyStore

\* one iteration of the loop of update_results.main
ResultsStepScript ==
    /\ results_run.mode = "script"
    /\ \E k \in results_run.todo, pg \in PagesScript :
        /\ games' = [games EXCEPT ![k] =
                        update_game_in_firestore(@, update_game_result(pg, games[k], now))]
        /\ results_run' = RunOver(results_run.mode, results_run.todo \ {k})
    /\ UNCHANGED <<teams, players, now>>
    /\ OnlyStore

InitStore ==
    /\ games = [k \in GameKeys |-> NoDoc]
    /\ teams = NoTeam
    /\ players = NoPlayer
    /\ now = 0
    /\ results_run = NoRun

\* Games and Results over fixtures whose cards all carry a details link
NextStore ==
    \/ GamesStageCF(LinkedCards)
    \/ GamesStageScript(LinkedCards)
    \/ ResultsStartCF
    \/ ResultsStepCF
    \/ ResultsStartScript
    \/ ResultsStepScript
    \/ Tick

\* the Games stage over any card
NextIds ==
    \/ GamesStageCF(Cards)
    \/ GamesStageScript(Cards)
    \/ Tick

\* the Teams and Players stages
NextPlayers ==
    \/ TeamsStage
    \/ PlayersStage
    \/ Tick

\* the Games and Players stages over a work list of two teams
NextOrder ==
    \/ GamesWorkListCF
    \/ GamesWorkListScript
    \/ PlayersWorkList
    \/ Tick

(***************************************************************************)
(* The Games stage scanning the round pages                                *)
(***************************************************************************)
\* most teams (grades, for the archived per-grade scan) in a work list
MaxTeams == 2
\* largest max_rounds a caller passes
MaxRounds == 4

Grades == {"G1", "G2"}

\* the work list: the grade of each team to scan, in order
WorkLists == UNION {[1..n -> Grades] : n \in 1..MaxTeams}

\* the per-grade scan of fixture_games_creator takes each grade once
GradeLists == {w \in WorkLists : \A i, j \in DOMAIN w : i # j => w[i] # w[j]}

\* what a fetch of a round page gives: an error or no response, a page
\* without cards, a page with cards, a page whose cards yield no game
RoundPages == {"error", "empty", "cards", "no_games"}

\* last: the page of the latest fetch; cardless: how many pages in a row, up
\* to the latest fetch, held no card (div.card-body)
NoScan == [phase |-> "idle", variant |-> "none", work |-> <<>>, max_rounds |-> 0,
           pos |-> 0, round_num |-> 0, empty |-> 0, over |-> FALSE, fetched |-> 0,
           last |-> "none", cardless |-> 0]

\* "while round_num <= max_rounds"; the archived scan has the fixed limit
\* MAX_ROUNDS_TO_CHECK in "for round_num in range(1, MAX_ROUNDS_TO_CHECK + 1)"
NoRoundLimit(round_num, max_rounds) == TRUE
WithinRounds(round_num, max_rounds) == round_num <= max_rounds

\* "if empty_rounds_count >= 3"
EmptyStop(empty) == empty >= 3

\* discover_games.main, discover_games_cf and fixture_games_creator.main: the
\* work list is read and the first scan begins
RoundsStart ==
    /\ scan.phase # "scanning"
    /\ \E variant \in {"script", "cf", "archive"}, mr \in 1..MaxRounds :
        \E work \in IF variant = "archive" THEN GradeLists ELSE WorkLists :
            scan' = [phase |-> "scanning", variant |-> variant, work |-> work,
                     max_rounds |-> mr, pos |-> 1, round_num |-> 1, empty |-> 0,
                     over |-> FALSE, fetched |-> 0, last |-> "none", cardless |-> 0]
    /\ grade_fetches' = [g \in Grades |-> 0]
    /\ OnlyRounds

\* one iteration of the loop over rounds: the page is fetched, then
\* error -> break; no cards -> count, break at three, else next round;
\* cards -> the count starts again (the script counts a round whose cards
\* yield no game, after resetting), next round
FetchRound ==
    /\ scan.phase = "scanning"
    /\ ~scan.over
    /\ WithinRounds(scan.round_num, scan.max_rounds)
    /\ \E page \in RoundPages :
        LET g == scan.work[scan.pos]
            empty1 == IF page = "empty" THEN scan.empty + 1
                      ELSE IF page = "no_games" /\ scan.variant = "script" THEN 1
                      ELSE 0
            stop == page = "error" \/ (page \in {"empty"} /\ EmptyStop(empty1))
                    \/ (page = "no_games" /\ scan.variant = "script" /\ EmptyStop(empty1))
        IN  /\ grade_fetches' = [grade_fetches EXCEPT ![g] = @ + 1]
            /\ scan' = [scan EXCEPT !.fetched = @ + 1,
                                    !.empty = IF page = "error" THEN @ ELSE empty1,
                                    !.over = stop,
                                    !.round_num = IF stop THEN @ ELSE @ + 1,
                                    !.last = page,
                                    !.cardless = IF page = "empty" THEN @ + 1
                                                 ELSE IF page = "error" THEN @ ELSE 0]
    /\ OnlyRounds

\* the scan of a team returns: the next team's scan begins, or the run ends
ScanReturns ==
    /\ scan.phase = "scanning"
    /\ scan.over \/ ~WithinRounds(scan.round_num, scan.max_rounds)
    /\ scan' = IF scan.pos < Len(scan.work)
               THEN [scan EXCEPT !.pos = @ + 1, !.round_num = 1, !.empty = 0,
                                 !.over = FALSE, !.fetched = 0, !.last = "none",
                                 !.cardless = 0]
               ELSE [scan EXCEPT !.phase = "done"]
    /\ UNCHANGED grade_fetches
    /\ OnlyRounds

InitRounds ==
    /\ scan = NoScan
    /\ grade_fetches = [g \in Grades |-> 0]

NextRounds ==
    \/ RoundsStart
    \/ FetchRound
    \/ ScanReturns

(***************************************************************************)
(* The HTTP fetcher: make_request                                          *)
(***************************************************************************)
MAX_RETRIES == 3

\* seconds
RETRY_DELAY == 3

\* Retry(backoff_factor=0.3), in tenths of a second
backoff_factor == 3

\* what a GET meets
Responses == {"ok", "timeout", "network", "http500", "http503", "http404", "http400"}

\* the fetchers:
\*   poller          weekly_results_poller.make_request
\*   archive         archive/find_new_data.make_request
\*   session         utils/request_utils.make_request on a session of
\*                   create_session() (no session passed)
\*   caller_session  utils/request_utils.make_request on the requests.Session()
\*                   that the stage scripts pass; make_request / make_request_cf
\*                   of the cloud functions
Fetchers == {"poller", "archive", "session", "caller_session"}

\* whether the fetcher goes on to another request after resp
RetriesOn(variant, resp) ==
    CASE variant = "poller"  -> resp \in {"timeout", "network", "http500", "http503", "http400"}
      [] variant = "archive" -> resp # "ok"
      \* Retry(total, read, connect, status_forcelist=(500, 502, 504))
      [] variant = "session" -> resp \in {"timeout", "network", "http500"}
      [] variant = "caller_session" -> FALSE

\* the sleep before retry number n (1, 2, 3), in tenths of a second:
\* time.sleep(RETRY_DELAY * (retry_count + 1)); urllib3 sleeps
\* backoff_factor * 2^(n - 1), and not at all before the first retry
WaitBefore(variant, n) ==
    IF variant = "session"
    THEN IF n <= 1 THEN 0 ELSE backoff_factor * 2 ^ (n - 1)
    ELSE 10 * RETRY_DELAY * n

NoFetch == [phase |-> "idle", variant |-> "none", retry_count |-> 0,
            responses |-> <<>>, waits |-> <<>>]

\* make_request(url) is called
MakeRequestStart ==
    /\ fetch.phase # "requesting"
    /\ \E variant \in Fetchers :
        fetch' = [phase |-> "requesting", variant |-> variant, retry_count |-> 0,
                  responses |-> <<>>, waits |-> <<>>]
    /\ OnlyFetch

\* one GET: the response is returned, or the fetcher sleeps and asks again,
\* or it gives up and returns None (or the error response, which is falsy)
MakeRequestAttempt ==
    /\ fetch.phase = "requesting"
    /\ \E resp \in Responses :
        fetch' =
            IF resp = "ok"
            THEN [fetch EXCEPT !.responses = Append(@, resp), !.phase = "returned"]
            ELSE IF RetriesOn(fetch.variant, resp) /\ fetch.retry_count < MAX_RETRIES
            THEN [fetch EXCEPT !.responses = Append(@, resp),
                               !.retry_count = @ + 1,
                               !.waits = Append(@, WaitBefore(fetch.variant, fetch.retry_count + 1))]
            ELSE [fetch EXCEPT !.responses = Append(@, resp), !.phase = "failed"]
    /\ OnlyFetch

InitFetch == fetch = NoFetch

NextFetch ==
    \/ MakeRequestStart
    \/ MakeRequestAttempt

(***************************************************************************)
(* The job records of the HTTP surface: several runs at a time             *)
(***************************************************************************)
\* latest second of the wall clock
MaxSecond == 1
\* most runs started
MaxRuns == 2

\* the endpoints: POST /pipeline/games (run_games, a single stage through
\* run_pipeline_async) and POST /run-pipeline (run_modules_in_order)
JobKinds == {"games", "multi"}

\* f"games_{datetime.now().strftime('%Y%m%d_%H%M%S')}", f"multi_..."
JobId(kind, t) == <<kind, t>>

JobIds == {JobId(kind, t) : kind \in JobKinds, t \in 0..MaxSecond}

NoJob == [status |-> "none", modules |-> <<>>, params |-> [dry_run |-> FALSE]]

\* what the request asks to run: the record's "module" or "modules"
JobRequests(kind) ==
    IF kind = "games" THEN {<<"discover_games">>}
    ELSE {OrderModules(<<"games">>), OrderModules(<<"results">>)}

\* the handler: the job id is made from the clock, the task is queued with
\* background_tasks.add_task, and the response names the job id
StartJob ==
    /\ Len(runs) < MaxRuns
    /\ \E kind \in JobKinds, req \in Requests :
        \E ms \in JobRequests(kind) :
            runs' = Append(runs, [job_id |-> JobId(kind, second), kind |-> kind,
                                  modules |-> ms, params |-> req, pc |-> "queued"])
    /\ UNCHANGED <<job_status, second>>
    /\ OnlyJobs

\* run_pipeline_async up to "await loop.run_in_executor": the record is put
\* under the job id
TaskSingleBegin ==
    /\ \E i \in DOMAIN runs :
        /\ runs[i].kind = "games"
        /\ runs[i].pc = "queued"
        /\ job_status' = [job_status EXCEPT ![runs[i].job_id] =
                              [status |-> "running", modules |-> runs[i].modules,
                               params |-> runs[i].params]]
        /\ runs' = [runs EXCEPT ![i].pc = "running"]
    /\ UNCHANGED second
    /\ OnlyJobs

\* run_pipeline_async after the await: job_status[job_id].update(...)
TaskSingleEnd ==
    /\ \E i \in DOMAIN runs, success \in BOOLEAN :
        /\ runs[i].kind = "games"
        /\ runs[i].pc = "running"
        /\ job_status' = [job_status EXCEPT ![runs[i].job_id].status =
                              IF success THEN "completed" ELSE "failed"]
        /\ runs' = [runs EXCEPT ![i].pc = "done"]
    /\ UNCHANGED second
    /\ OnlyJobs

\* run_multi_async: it has no await, so the record is put under the job id
\* and brought to its final status before any other handler or task runs
TaskMulti ==
    /\ \E i \in DOMAIN runs, critical_failed \in BOOLEAN :
        /\ runs[i].kind = "multi"
        /\ runs[i].pc = "queued"
        /\ job_status' = [job_status EXCEPT ![runs[i].job_id] =
                              [status |-> IF critical_failed THEN "failed" ELSE "completed",
                               modules |-> runs[i].modules,
                               params |-> runs[i].params]]
        /\ runs' = [runs EXCEPT ![i].pc = "done"]
    /\ UNCHANGED second
    /\ OnlyJobs

TickSecond ==
    /\ second < MaxSecond
    /\ second' = second + 1
    /\ UNCHANGED <<job_status, runs>>
    /\ OnlyJobs

\* get_job_status: 404 when the id is unknown, else the record under the id
get_job_status(job_id) == job_status[job_id]

InitJobs ==
    /\ job_status = [id \in JobIds |-> NoJob]
    /\ runs = <<>>
    /\ second = 0

NextJobs ==
    \/ StartJob
    \/ TaskSingleBegin
    \/ TaskSingleEnd
    \/ TaskMulti
    \/ TickSecond

(***************************************************************************)
(* The classifier: the team type read off a name                           *)
(***************************************************************************)
\* A name is the set of its (lower-case) words; a term without a blank is
\* in the name exactly when it is in one of the words.
Words == {"mentone", "junior", "u12", "u9", "under", "pennant", "premier",
          "masters", "veteran", "40+", "midweek", "indoor", "outdoor",
          "summer", "christmas"}

Names == {n \in SUBSET Words : Cardinality(n) >= 1 /\ Cardinality(n) <= MaxWords}

\* the classifiers' terms that occur in a word ("term in name_lower")
TermsIn(w) ==
    CASE w = "u12"       -> {"u12", "u1"}
      [] w = "masters"   -> {"masters", "master", "mas"}
      [] w = "christmas" -> {"mas"}
      [] w = "mentone"   -> {"men"}
      [] w = "women's"   -> {"women's", "women", "wom", "men's", "men"}
      [] w = "men's"     -> {"men's", "men"}
      [] w = "female"    -> {"female", "male"}
      [] w = "girls"     -> {"girls", "girl"}
      [] w = "boys"      -> {"boys", "boy"}
      [] w = "mixed"     -> {"mixed", "mix"}
      [] OTHER           -> {w}

Contains(name, term) == \E w \in name : term \in TermsIn(w)

AnyOf(name, terms) == \E term \in terms : Contains(name, term)

\* find_new_data.TYPE_KEYWORDS, in the order of the dict
TYPE_KEYWORDS == <<<<"senior", "Senior">>, <<"junior", "Junior">>, <<"midweek", "Midweek">>,
                   <<"masters", "Masters">>, <<"outdoor", "Outdoor">>, <<"indoor", "Indoor">>>>

\* "for keyword, value in TYPE_KEYWORDS.items(): if keyword in name_lower"
TypeKeyword(name) ==
    LET hits == {i \in DOMAIN TYPE_KEYWORDS : Contains(name, TYPE_KEYWORDS[i][1])}
    IN  IF hits = {} THEN "Unknown"
        ELSE TYPE_KEYWORDS[CHOOSE i \in hits : \A j \in hits : i <= j][2]

\* find_new_data.classify_item: 'if team_type == "Unknown": team_type = "Senior"'
FallbackKeep(team_type) == team_type
FallbackType(team_type) == IF team_type = "Unknown" THEN "Senior" ELSE team_type

\* find_new_data.classify_item: the first element of its result
classify_item(name) ==
    LET first ==
            IF AnyOf(name, {"midweek", "masters", "35+", "45+", "50+", "60+", "70+"}) THEN "Midweek"
            ELSE IF AnyOf(name, {"junior", "u8", "u9", "u10", "u11", "u12", "u13", "u14",
                                 "u15", "u16", "u17", "u18"}) THEN "Junior"
            ELSE IF AnyOf(name, {"senior", "pennant", "vic league", "premier league", "metro"})
                 THEN "Senior"
            ELSE IF Contains(name, "indoor") THEN "Indoor"
            ELSE IF Contains(name, "outdoor") THEN "Outdoor"
            ELSE IF AnyOf(name, {"social", "summer", "vaisakhi", "cup"}) THEN "Social/Other"
            ELSE "Unknown"
        second_try == IF first = "Unknown" THEN TypeKeyword(name) ELSE first
    IN  FallbackType(second_try)

\* scripts/discover_teams.determine_team_type
determine_team_type(grade_name) ==
    IF AnyOf(grade_name, {"junior", "under", "u1"}) THEN "Junior"
    ELSE IF AnyOf(grade_name, {"senior", "premier", "vic league", "pennant", "metro"}) THEN "Senior"
    ELSE IF AnyOf(grade_name, {"master", "veteran", "35+", "45+"}) THEN "Masters"
    ELSE IF Contains(grade_name, "midweek") THEN "Midweek"
    ELSE IF Contains(grade_name, "indoor") THEN "Indoor"
    ELSE "Senior"

\* discover_teams_cf.determine_team_type_cf
determine_team_type_cf(grade_name) ==
    IF AnyOf(grade_name, {"junior", "under", "u10", "u12", "u14", "u16", "u18", "u19", "jnr"})
    THEN "Junior"
    ELSE IF AnyOf(grade_name, {"senior", "premier", "vic league", "pennant", "metro", "snr"})
    THEN "Senior"
    ELSE IF AnyOf(grade_name, {"master", "veteran", "35+", "40+", "45+", "50+", "mas"})
    THEN "Masters"
    ELSE IF Contains(grade_name, "midweek") THEN "Midweek"
    ELSE IF Contains(grade_name, "indoor") THEN "Indoor"
    ELSE "Senior"

Classifiers == {"classify_item", "determine_team_type", "determine_team_type_cf"}

NoItem == [name |-> {}, variant |-> "none", team_type |-> "none"]

ClassifyItem ==
    /\ \E name \in Names :
        item' = [name |-> name, variant |-> "classify_item", team_type |-> classify_item(name)]
    /\ OnlyClass

DetermineTeamType ==
    /\ \E name \in Names :
        item' = [name |-> name, variant |-> "determine_team_type",
                 team_type |-> determine_team_type(name)]
    /\ OnlyClass

DetermineTeamTypeCf ==
    /\ \E name \in Names :
        item' = [name |-> name, variant |-> "determine_team_type_cf",
                 team_type |-> determine_team_type_cf(name)]
    /\ OnlyClass

InitClass == item = NoItem

NextClass ==
    \/ ClassifyItem
    \/ DetermineTeamType
    \/ DetermineTeamTypeCf

\* The names the gender rules are applied to. "vic league" is kept as one
\* word, being a term with a blank in it; a name's digits hold no term and
\* are left out, so {"women's", "vic league"} is "Women's Vic League 1".
GenderWords == {"women's", "men's", "female", "girls", "boys", "ladies", "mixed",
                "vic league", "mentone", "u12"}

GenderNames == {n \in SUBSET GenderWords : Cardinality(n) >= 1 /\ Cardinality(n) <= MaxWords}

\* find_new_data.GENDER_MAP, in the order of the dict
GENDER_MAP == <<<<"men", "Men">>, <<"women", "Women">>, <<"boys", "Boys">>,
                <<"girls", "Girls">>, <<"mixed", "Mixed">>>>

\* "for keyword, value in GENDER_MAP.items(): if keyword in name_lower"
GenderKeyword(name) ==
    LET hits == {i \in DOMAIN GENDER_MAP : Contains(name, GENDER_MAP[i][1])}
    IN  IF hits = {} THEN "Unknown"
        ELSE GENDER_MAP[CHOOSE i \in hits : \A j \in hits : i <= j][2]

\* find_new_data.classify_item: the second element of its result
classify_item_gender(name) ==
    LET team_type == classify_item(name)
        first ==
            IF AnyOf(name, {"women", "girls", "ladies"}) THEN "Women"
            ELSE IF AnyOf(name, {"men", "boys"}) THEN "Men"
            ELSE IF Contains(name, "mixed") THEN "Mixed"
            ELSE "Unknown"
        second_try == IF first = "Unknown" THEN GenderKeyword(name) ELSE first
    IN  IF second_try # "Unknown" THEN second_try
        ELSE IF team_type = "Junior" THEN "Mixed"
        ELSE IF team_type = "Midweek" /\ ~Contains(name, "women") THEN "Men"
        ELSE IF team_type = "Senior" /\ ~Contains(name, "women") THEN "Men"
        ELSE "Unknown"

\* scripts/discover_competitions.determine_gender
determine_gender(name) ==
    IF AnyOf(name, {"men", "male", "boys", "men's"}) THEN "Men"
    ELSE IF AnyOf(name, {"women", "female", "girls", "women's"}) THEN "Women"
    ELSE IF Contains(name, "mixed") THEN "Mixed"
    ELSE "Unknown"

\* discover_teams_cf.determine_gender_cf
determine_gender_cf(grade_name) ==
    IF AnyOf(grade_name, {"women's", "women", "female", "girls", "wom", "wg", "girl"})
    THEN "Women"
    ELSE IF AnyOf(grade_name, {"men's", "men", "male", "boys", "boy", "mg"}) THEN "Men"
    ELSE IF AnyOf(grade_name, {"mixed", "mix"}) THEN "Mixed"
    ELSE "Unknown"

ClassifyItemGender ==
    /\ \E name \in GenderNames :
        item' = [name |-> name, variant |-> "classify_item", team_type |-> classify_item(name),
                 gender |-> classify_item_gender(name)]
    /\ OnlyClass

DetermineGender ==
    /\ \E name \in GenderNames :
        item' = [name |-> name, variant |-> "determine_gender", team_type |-> "none",
                 gender |-> determine_gender(name)]
    /\ OnlyClass

DetermineGenderCf ==
    /\ \E name \in GenderNames :
        item' = [name |-> name, variant |-> "determine_gender_cf", team_type |-> "none",
                 gender |-> determine_gender_cf(name)]
    /\ OnlyClass

NextGender ==
    \/ ClassifyItemGender
    \/ DetermineGender
    \/ DetermineGenderCf

(***************************************************************************)
(* Batched writes: the loops that add their writes to a WriteBatch and     *)
(* commit it when their counter reaches the batch size                     *)
(***************************************************************************)
\* the loops:
\*   poller    weekly_results_poller.update_results_in_firestore
\*   games     archive/fixture_games_creator.create_update_games_in_batch
\*   teams     archive/find_new_data.main (team_batch)
\*   metadata  archive/find_new_data.scrape_and_process_main_page
\*             (metadata_batch)
BatchLoops == {"poller", "games", "teams", "metadata"}

BATCH_SIZE == 100

MAX_BATCH_SIZE == 400

BatchCap(variant) == IF variant = "poller" THEN BATCH_SIZE ELSE MAX_BATCH_SIZE

\* count: the loop's counter (batch_count); ops: the operations the batch
\* object holds; stale: those of them that a failed commit left in it;
\* errors: error_count; failures: the commits that failed; largest: the most
\* operations a commit was called with; in_flight: commits not yet returned
NoBatch == [variant |-> "none", phase |-> "idle", done |-> 0, count |-> 0, ops |-> 0,
            stale |-> 0, errors |-> 0, failures |-> 0, largest |-> 0, in_flight |-> 0,
            final |-> FALSE]

\* the operations one work item adds to the batch, and whether the loop
\* counts it and compares the counter with the batch size after it
\*   poller    a game: one update when the scrape gave a result, else
\*             nothing
\*   games     a parsed game: one set or update
\*   teams     a team: process_team adds the team's set or update;
\*             get_or_create_club adds the club's when "if batch:" holds,
\*             which an empty batch may fail (WriteBatch.__len__)
\*   metadata  a competition (not followed by the comparison) or a grade
BatchItems(variant, ops) ==
    CASE variant = "poller" ->
            {[adds |-> 1, counts |-> 1, checks |-> TRUE], [adds |-> 0, counts |-> 0, checks |-> FALSE]}
      [] variant = "games" -> {[adds |-> 1, counts |-> 1, checks |-> TRUE]}
      [] variant = "teams" ->
            IF ops = 0
            THEN {[adds |-> 1, counts |-> 1, checks |-> TRUE], [adds |-> 2, counts |-> 1, checks |-> TRUE]}
            ELSE {[adds |-> 2, counts |-> 1, checks |-> TRUE]}
      [] variant = "metadata" ->
            {[adds |-> 1, counts |-> 1, checks |-> FALSE], [adds |-> 1, counts |-> 1, checks |-> TRUE]}

\* "batch.commit()" is called
CallCommit(b, final) ==
    [b EXCEPT !.phase = "committing", !.final = final, !.in_flight = @ + 1,
              !.largest = IF b.ops > @ THEN b.ops ELSE @]

\* the loop begins: batch = db.batch(); batch_count = 0
BatchStart ==
    /\ bw.phase \in {"idle", "done", "aborted"}
    /\ \E variant \in BatchLoops : bw' = [NoBatch EXCEPT !.variant = variant, !.phase = "running"]
    /\ OnlyBatch

\* one iteration: the item's operations are added, the counter is raised and
\* "if batch_count >= MAX_BATCH_SIZE" decides on a commit
BatchItem ==
    /\ bw.phase = "running"
    /\ bw.done < MaxItems
    /\ \E it \in BatchItems(bw.variant, bw.ops) :
        LET added == [bw EXCEPT !.done = @ + 1, !.ops = @ + it.adds, !.count = @ + it.counts]
        IN  bw' = IF it.checks /\ added.count >= BatchCap(bw.variant)
                  THEN CallCommit(added, FALSE)
                  ELSE added
    /\ OnlyBatch

\* the work list is exhausted: "if batch_count > 0: batch.commit()"
BatchEnd ==
    /\ bw.phase = "running"
    /\ bw' = IF bw.count > 0 THEN CallCommit(bw, TRUE) ELSE [bw EXCEPT !.phase = "done"]
    /\ OnlyBatch

\* commit() returns: "batch = db.batch(); batch_count = 0", and the loop
\* goes on (or the function returns after the final commit)
CommitSucceeds ==
    /\ bw.phase = "committing"
    /\ bw' = [bw EXCEPT !.phase = IF bw.final THEN "done" ELSE "running",
                        !.in_flight = @ - 1, !.ops = 0, !.count = 0, !.stale = 0]
    /\ OnlyBatch

\* commit() raises. In create_update_games_in_batch the commit inside the
\* loop is within the item's try: error_count += 1, and the batch and its
\* counter are left as they are. Everywhere else the exception leaves the
\* function and is logged by the caller's "except Exception".
CommitFails ==
    /\ bw.phase = "committing"
    /\ bw.failures < MaxFailures
    /\ bw' = IF bw.variant = "games" /\ ~bw.final
             THEN [bw EXCEPT !.phase = "running", !.in_flight = @ - 1, !.failures = @ + 1,
                             !.errors = @ + 1, !.stale = bw.ops]
             ELSE [bw EXCEPT !.phase = "aborted", !.in_flight = @ - 1, !.failures = @ + 1]
    /\ OnlyBatch

InitBatch == bw = NoBatch

NextBatch ==
    \/ BatchStart
    \/ BatchItem
    \/ BatchEnd
    \/ CommitSucceeds
    \/ CommitFails

(***************************************************************************)
(* Staleness selection of the incremental runs                             *)
(* (archive/find_new_data.py, archive/fixture_games_creator.py).           *)
(*                                                                         *)
(* An instant is held as the number of whole hours it lies before the      *)
(* current instant, and every such number stops growing at Horizon: the    *)
(* code compares a stored instant with "now - threshold" only, so two      *)
(* instants that are both more than the threshold old are not told apart.  *)
(* NullInt stands for a grade without a document, AbsentInt for a document *)
(* without the field.                                                      *)
(***************************************************************************)
GradeIds == 1..MaxGrades

\* "24 * 7": the grades are checked again once a week
GRADE_RECHECK_THRESHOLD_HOURS == 168

Horizon == GRADE_RECHECK_THRESHOLD_HOURS + 1

\* the hours between two events of a schedule: half the threshold, or an hour more
ElapsedHours == {GRADE_RECHECK_THRESHOLD_HOURS \div 2, GRADE_RECHECK_THRESHOLD_HOURS \div 2 + 1}

Older(ago, d) == IF ago < 0 THEN ago ELSE IF ago + d > Horizon THEN Horizon ELSE ago + d

NoIncrementalRun == [variant |-> "none", seen |-> [g \in GradeIds |-> NullInt], scanned |-> {}]

\* find_new_data.scrape_and_process_main_page, lines 258-275: a grade without
\* a document is scanned; one whose last_checked is a datetime is scanned when
\* last_checked < now - threshold; one without a datetime there is scanned
should_scan_this_grade(last_checked) ==
    IF last_checked = NullInt
    THEN TRUE
    ELSE IF last_checked # AbsentInt
         THEN last_checked > GRADE_RECHECK_THRESHOLD_HOURS
         ELSE TRUE

\* time passes between two runs
Elapses(d) ==
    /\ stale' = [stale EXCEPT !.last_checked = [g \in GradeIds |-> Older(stale.last_checked[g], d)],
                          !.last_scanned = [g \in GradeIds |-> Older(stale.last_scanned[g], d)]]
    /\ OnlyStale

\* find_new_data.main: every grade on the index page is written with
\* last_checked = SERVER_TIMESTAMP (grade_payload, lines 256, 262, 268), whether
\* it is marked for the scan or not; the marked grades are then scanned for teams
FindNewDataRun ==
    LET grades_to_scan == {g \in stale.page : should_scan_this_grade(stale.last_checked[g])}
    IN  /\ stale' = [stale EXCEPT !.last_checked = [g \in GradeIds |->
                                    IF g \in stale.page THEN 0 ELSE stale.last_checked[g]],
                              !.last_scanned = [g \in GradeIds |->
                                    IF g \in grades_to_scan THEN 0 ELSE stale.last_scanned[g]],
                              !.run = [variant |-> "find_new_data", seen |-> stale.last_checked,
                                       scanned |-> grades_to_scan]]
        /\ OnlyStale

\* fixture_games_creator.main, lines 391-396: the threshold is computed, then
\* scrape_and_process_main_page is called, a name the module neither defines
\* nor imports; the NameError is logged by main's "except Exception" (line
\* 426), so no grade is written and none is scanned
FixtureGamesCreatorRun ==
    /\ stale' = [stale EXCEPT !.run = [variant |-> "fixture_games_creator",
                                   seen |-> stale.last_checked, scanned |-> {}]]
    /\ OnlyStale

\* the competitions index lists these grades from now on
IndexLists(page) ==
    /\ stale.page = {}
    /\ page # {}
    /\ stale' = [stale EXCEPT !.page = page]
    /\ OnlyStale

\* creation-scripts/"python fresh_start.py", lines 392-413: the grades of a
\* fresh store are created keyed by fixture id, without a last_checked
FreshStart(gs) ==
    /\ gs # {}
    /\ \A g \in GradeIds : stale.last_checked[g] = NullInt
    /\ stale' = [stale EXCEPT !.last_checked = [g \in GradeIds |->
                                IF g \in gs THEN AbsentInt ELSE stale.last_checked[g]]]
    /\ OnlyStale

InitStale ==
    stale = [page |-> {}, last_checked |-> [g \in GradeIds |-> NullInt],
           last_scanned |-> [g \in GradeIds |-> AbsentInt], run |-> NoIncrementalRun]

NextStale ==
    \/ \E page \in SUBSET GradeIds : IndexLists(page)
    \/ \E gs \in SUBSET GradeIds : FreshStart(gs)
    \/ \E d \in ElapsedHours : Elapses(d)
    \/ FindNewDataRun
    \/ FixtureGamesCreatorRun

vars == <<pipeVars, storeVars, roundVars, fetchVars, jobVars, classVars, workVars, batchVars, staleVars>>

Init == InitPipeline /\ InitStore /\ InitRounds /\ InitFetch /\ InitJobs /\ InitClass /\ InitWork /\ InitBatch
        /\ InitStale

SpecPipeline == Init /\ [][NextPipeline]_vars

SpecCli == Init /\ [][NextCli]_vars

SpecClass == Init /\ [][NextClass]_vars

SpecBatch == Init /\ [][NextBatch]_vars

SpecStale == Init /\ [][NextStale]_vars

SpecGender == Init /\ [][NextGender]_vars

\* the clock advances, and the incremental run is started again and again
SpecStaleLive ==
    /\ Init
    /\ [][NextStale]_vars
    /\ WF_vars(\E d \in ElapsedHours : Elapses(d))
    /\ WF_vars(FindNewDataRun)

SpecStore == Init /\ [][NextStore]_vars

SpecIds == Init /\ [][NextIds]_vars

SpecPlayers == Init /\ [][NextPlayers]_vars

SpecRounds == Init /\ [][NextRounds]_vars

SpecOrder == Init /\ [][NextOrder]_vars

SpecFetch == Init /\ [][NextFetch]_vars

SpecJobs == Init /\ [][NextJobs]_vars

(***************************************************************************)
(* Properties of the orchestrator                                          *)
(***************************************************************************)
\* the stages the specification calls critical
CriticalStages == {"competitions", "teams"}

Finished == surface # "none" /\ status # "running"

CriticalFailedAt(i) ==
    /\ i \in DOMAIN progress
    /\ progress[i].module \in CriticalStages
    /\ ~progress[i].success

\* C1: on every trigger surface, once competitions or teams has failed no
\* later stage is executed, and the run ends marked as failed (job status
\* "failed" on the HTTP surfaces, exit code 1 on the command line)
C1_CriticalFailureAborts ==
    \A i \in DOMAIN progress :
        CriticalFailedAt(i) =>
            /\ i = Len(progress)
            /\ Finished => IF surface = "cli" THEN exit_code = 1 ELSE status = "failed"

\* C2: a full run whose competitions stage finds zero competitions records
\* status failed with reason competitions, and no stage of the run writes
\* any document
C2_ZeroCompetitionsFailsFullRun ==
    (Range(ordered_modules) = ModuleNames /\ surface # "cli" /\ zero_comps) =>
        /\ run_writes = {}
        /\ Finished => (status = "failed" /\ error = "competitions")

\* C3: whatever subset is requested and in whatever order, the stages run
\* in canonical order: a stage never runs after one of higher rank
C3_CanonicalOrder ==
    \A i, j \in DOMAIN progress :
        i < j => Rank(progress[i].module) < Rank(progress[j].module)

\* C4: when only non-critical stages fail (and the user does not interrupt
\* the command), every stage of the run is still executed and recorded in
\* the per-stage list, in the run's order, and the job status of the
\* finished run is completed
C4_NonCriticalFailureContinues ==
    (Finished /\ ~interrupted /\ ~ \E i \in DOMAIN progress : CriticalFailedAt(i)) =>
        /\ Len(progress) = Len(ordered_modules)
        /\ \A i \in DOMAIN progress : progress[i].module = ordered_modules[i]
        /\ surface # "cli" => status = "completed"

\* a run on /run-pipeline or a bundle finished as completed although a
\* non-critical stage failed before the last stage
C4_Witness ==
    /\ surface \in {"bundle", "multi"}
    /\ status = "completed"
    /\ \E i \in DOMAIN progress :
        /\ ~progress[i].success
        /\ progress[i].module \notin CriticalStages
        /\ i < Len(progress)
        /\ progress[Len(progress)].success

\* C16: the command exits with 130 when it was interrupted, else with 1
\* when a selected stage failed, else with 0
C16_CommandExitCodes ==
    (surface = "cli" /\ status = "exited") =>
        exit_code = IF interrupted THEN 130
                    ELSE IF \E i \in DOMAIN progress : ~progress[i].success THEN 1
                    ELSE 0

\* C12: in a run in mode full, every Grade document the run has written
\* refers to a Competition document written by the same run
C12_GradeRefersToWrittenCompetition ==
    surface = "full" =>
        \A d \in run_writes :
            d[1] = "grades" => competition_ref(d[2]) \in run_writes

\* C13: a dry run of any stage reads as a normal run over the same pages and
\* store does (same exit code), computes the writes the normal run makes, and
\* lets none of them reach the store
C13_DryRunComputesAndSuppresses ==
    \A module \in ModuleNames :
        \A inp \in StageInputs(module) :
            ~inp.crash =>
                LET dry == StageMain(module, inp, TRUE, docs)
                    wet == StageMain(module, inp, FALSE, docs)
                IN  /\ dry.writes = {}
                    /\ dry.rc = wet.rc
                    /\ dry.computed = wet.computed

\* C15: for every run whose task has begun, the status query by the run's
\* job id returns the record of that run (its modules and parameters), with
\* a status among running, completed and failed, however many runs are
\* started together
C15_StatusQueryReturnsOwnRecord ==
    \A i \in DOMAIN runs :
        runs[i].pc # "queued" =>
            /\ get_job_status(runs[i].job_id).modules = runs[i].modules
            /\ get_job_status(runs[i].job_id).params = runs[i].params
            /\ get_job_status(runs[i].job_id).status \in {"running", "completed", "failed"}

(***************************************************************************)
(* Properties of the stages and the store                                  *)
(***************************************************************************)
TerminalStatuses == {"completed", "forfeit", "cancelled", "abandoned", "washed out"}

\* a document without the fields that idempotence leaves out
StripGame(doc) == [f \in GameFields \ {"updated_at"} |-> doc[f]]

StripGames(gs) == [k \in GameKeys |-> StripGame(gs[k])]

StripMeta(doc) == [doc EXCEPT !.updated_at = 0]

\* C5: a stage run a second time, at the same or a later instant, over the
\* pages of its first run leaves every field of every document as the first
\* run left it, updated_at apart (Games of both kinds, Teams, Players)
C5_StageIdempotent ==
    \A t2 \in now..MaxNow :
        /\ \A card \in Cards, h \in HashIds :
            /\ LET once == GamesRunCF(games, card, h, now)
               IN  StripGames(GamesRunCF(once, card, h, t2)) = StripGames(once)
            /\ LET once == GamesRunScript(games, card, h, now)
               IN  StripGames(GamesRunScript(once, card, h, t2)) = StripGames(once)
        /\ LET once == create_or_update_team(teams, now)
           IN  StripMeta(create_or_update_team(once, t2)) = StripMeta(once)
        /\ \A page \in StatsPages :
            LET once == create_or_update_player(players, page, now)
                gonce == PlayersRunGames(games, page, now)
            IN  /\ StripMeta(create_or_update_player(once, page, t2)) = StripMeta(once)
                /\ StripGames(PlayersRunGames(gonce, page, t2)) = StripGames(gonce)

\* the fields the specification lets a Results write touch
ResultsFields == {"status", "home_team.score", "away_team.score", "winner_text",
                  "mentone_result", "updated_at", "results_retrieved_at"}

\* the fields the Results writers touch
ResultsFieldsWritten == ResultsFields \cup
    {"results_script_version", "home_team.score_raw", "away_team.score_raw"}

\* a step of a Results run: nothing else runs while one is in progress
ResultsStepTaken == results_run.mode # "none"

FrameOutside(fields) ==
    \A k \in GameKeys : \A f \in GameFields \ fields : games'[k][f] = games[k][f]

\* C6 as stated: a Results write changes no field of a Game other than
\* status, home_team.score, away_team.score, winner_text, mentone_result,
\* updated_at and results_retrieved_at
C6_ResultsWritesOnlyListed == [][ResultsStepTaken => FrameOutside(ResultsFields)]_vars

\* C6 amended: a Results write changes no field of a Game other than the
\* listed ones, results_script_version and the two score_raw fields; venue,
\* team names, date, id, url, created_at keep their values
C6_ResultsFrame == [][ResultsStepTaken => FrameOutside(ResultsFieldsWritten)]_vars

\* a Game that the Results stage of the cloud function has completed, with
\* the fields of the Games stage in place
C6_Witness ==
    \E k \in GameKeys :
        /\ games[k]["results_script_version"] = "cf-1.0"
        /\ games[k]["status"] = "completed"
        /\ games[k]["home_team.score"] = 1
        /\ games[k]["venue"] # Absent
        /\ games[k]["home_team.name"] = "Mentone Hockey Club"
        /\ games[k]["created_at"] # AbsentInt

\* a step of the Games stage that writes: no Results run in progress, the
\* clock stands, a Game changes
GamesStepTaken == Quiet /\ results_run' = results_run /\ now' = now /\ games' # games

\* C7: a Games run over a Game to which the Results stage has given a
\* terminal status and scores leaves its status, home_team.score and
\* away_team.score as they were
C7_GamesPreservesResults ==
    [][GamesStepTaken =>
        \A k \in GameKeys :
            ( /\ games[k]["status"] \in TerminalStatuses
              /\ games[k]["results_retrieved_at"] # AbsentInt
              /\ games[k]["home_team.score"] >= 0
              /\ games[k]["away_team.score"] >= 0 )
            => /\ games'[k]["status"] = games[k]["status"]
               /\ games'[k]["home_team.score"] = games[k]["home_team.score"]
               /\ games'[k]["away_team.score"] = games[k]["away_team.score"]]_vars

\* C8: every Game document is stored under its id field, which is the id in
\* the URL of the game
C8_IdentifierStability ==
    \A k \in GameKeys :
        Exists(games[k]) => (games[k]["id"] = k /\ games[k]["url"] = k)

\* the Games a Results run without force_update is to select: in the
\* window, Mentone playing, status not terminal
ToSelect(days_back) ==
    { k \in GameKeys : /\ InWindow(games[k], now, days_back)
                       /\ games[k]["status"] \notin TerminalStatuses }

\* C9: a Results run without force_update selects exactly the Games in the
\* window, with Mentone playing, whose status is not terminal
C9_ResultsSelection ==
    \A days_back \in 0..MaxDaysBack :
        /\ find_games_to_update(games, now, days_back) = ToSelect(days_back)
        /\ games_to_check(games, now, days_back, FALSE) = {ToSelect(days_back)}

\* C11: whatever the order in which a stage takes the teams of its work
\* list, the documents it leaves are the same, updated_at apart (Games of
\* both kinds, Players)
C11_OrderIrrelevant ==
    \A w1, w2 \in WorkOrders :
        /\ \A card \in Cards, h \in HashIds :
            /\ StripGames(GamesWorkCF(games, w1, card, h, now))
                 = StripGames(GamesWorkCF(games, w2, card, h, now))
            /\ StripGames(GamesWorkScript(games, w1, card, h, now))
                 = StripGames(GamesWorkScript(games, w2, card, h, now))
        /\ \A pages \in TeamPages :
            StripMeta(PlayersWork(players, w1, pages, now))
              = StripMeta(PlayersWork(players, w2, pages, now))

\* the pages whose h1 heading reads "3 - 2"
HeadingScore == <<3, 2>>

HeadingPages ==
    { [pg EXCEPT !.score = HeadingScore] : pg \in {q \in ResultPages : q.ok /\ q.h1 = "numeric"} }

Unscored(doc) ==
    /\ Exists(doc)
    /\ doc["status"] = "scheduled"
    /\ doc["home_team.score"] \in {AbsentInt, NullInt}
    /\ doc["away_team.score"] \in {AbsentInt, NullInt}

HeadingOutcome(doc) ==
    /\ doc["status"] = "completed"
    /\ doc["home_team.score"] = HeadingScore[1]
    /\ doc["away_team.score"] = HeadingScore[2]
    /\ is_mentone_team(doc["home_team.name"]) => doc["mentone_result"] = "win"

\* C17: a Game with status scheduled and no scores, after a Results run over
\* a game page whose heading reads "3 - 2", has status completed, home score
\* 3, away score 2 and, when the home team's name contains the focus
\* keyword, mentone_result win (cloud function and script alike)
C17_HeadingScoreRecorded ==
    \A k \in GameKeys : Unscored(games[k]) =>
        \A pg \in HeadingPages :
            /\ HeadingOutcome(update_game_in_firestore_cf(games[k],
                                  extract_game_result_from_page_cf(pg, games[k]), now))
            /\ HeadingOutcome(update_game_in_firestore(games[k],
                                  update_game_result(pg, games[k], now)))

HasScore(doc) == doc["home_team.score"] >= 0 \/ doc["away_team.score"] >= 0

FinalStatuses == {"completed", "forfeit", "cancelled", "abandoned", "washed out"}

\* C19: in every reachable store state, a Game with a score recorded for a
\* team has status completed or a terminal special status, never scheduled,
\* postponed or unknown_outcome
C19_ScoredGameIsFinal ==
    \A k \in GameKeys : (Exists(games[k]) /\ HasScore(games[k])) =>
        games[k]["status"] \in FinalStatuses

\* the pages on which both scores parse as integers, and the pages that
\* hold a special-status keyword and nothing else the extractors read
NumericPages == {pg \in ResultPages : pg.ok /\ pg.h1 = "numeric"}

KeywordPages == {pg \in ResultPages : /\ pg.ok /\ pg.term # "none" /\ pg.h1 = "none"
                                      /\ ~pg.winner /\ pg.cls = "none" /\ ~pg.clock
                                      /\ ~pg.indicator}

AfterResultsCF(doc, pg, t) ==
    update_game_in_firestore_cf(doc, extract_game_result_from_page_cf(pg, doc), t)

AfterResultsScript(doc, pg, t) ==
    update_game_in_firestore(doc, update_game_result(pg, doc, t))

\* C20: the Results stage (cloud function and script) sets a Game's status
\* to completed when both scores on the game page parse as integers, and to
\* the special-status keyword when only such a keyword is found on the page
C20_ResultsStatus ==
    \A k \in GameKeys : Exists(games[k]) =>
        /\ \A pg \in NumericPages :
            /\ AfterResultsCF(games[k], pg, now)["status"] = "completed"
            /\ AfterResultsScript(games[k], pg, now)["status"] = "completed"
        /\ \A pg \in KeywordPages :
            /\ AfterResultsCF(games[k], pg, now)["status"] = pg.term
            /\ AfterResultsScript(games[k], pg, now)["status"] = pg.term

\* the pages that show a forfeit and no scoreline: no numeric heading, no
\* score element holding digits, no other digit pair
ForfeitPages == {pg \in ResultPages : /\ pg.ok /\ pg.term = "forfeit" /\ pg.h1 = "none"
                                      /\ pg.cls # "digits" /\ ~pg.clock}

NoResultYet(doc) ==
    /\ Exists(doc)
    /\ doc["home_team.score"] \in {AbsentInt, NullInt}
    /\ doc["away_team.score"] \in {AbsentInt, NullInt}
    /\ doc["mentone_result"] = Absent

\* C21: when a game page shows a forfeit and no explicit scoreline, the
\* Results stage (cloud function and script) leaves home_team.score,
\* away_team.score and mentone_result unset
C21_ForfeitWithoutScore ==
    \A k \in GameKeys : NoResultYet(games[k]) =>
        \A pg \in ForfeitPages :
            /\ NoResultYet(AfterResultsCF(games[k], pg, now))
            /\ NoResultYet(AfterResultsScript(games[k], pg, now))

\* C22: after any sequence of Players-stage runs, the aggregated counter
\* games_played of the Player equals the sum of that stat over the entries
\* of the player's participation list (each entry counts one game played)
C22_CountersAreSums ==
    players.id # AbsentInt => players.games_played = Cardinality(players.games)

\* C23: within one run of a stage no two items of the work list produce a
\* write to the same document id
C23_WorkItemsWriteApart ==
    \A i, j \in DOMAIN write_log : i # j => write_log[i] \cap write_log[j] = {}

C24_StopsAtThreeEmpty ==
    scan.phase = "scanning" =>
        /\ scan.cardless <= 3
        /\ scan.cardless = 3 => scan.over
        /\ (scan.over /\ scan.last # "error") => scan.cardless = 3

(***************************************************************************)
(* Properties of the classifier                                            *)
(***************************************************************************)
\* the terms of team type: those held by the words other than the club's name
AllTerms == UNION {TermsIn(w) : w \in Words \ {"mentone"}}

\* C18: for every non-empty name, each classifier returns a team type other
\* than Unknown
C18_ClassifierTotal ==
    item.variant \in Classifiers =>
        /\ item.name # {}
        /\ item.team_type \in {"Senior", "Junior", "Midweek", "Masters", "Indoor", "Outdoor",
                                "Social/Other"}

\* a name without any of the terms has been classified by classify_item
C18_Witness ==
    /\ item.variant = "classify_item"
    /\ ~ AnyOf(item.name, AllTerms)
    /\ item.team_type = "Senior"

(***************************************************************************)
(* Properties of the fetcher                                               *)
(***************************************************************************)
\* the failures the specification has retried
Transient == {"timeout", "network", "http500", "http503"}

\* C14: a fetch call sends at most 4 requests; it reports failure on a
\* network error, a timeout or a 5xx response only once 3 retries have been
\* made; and the wait before retry number i is base * i for one base
C14_FetchRetries ==
    /\ Len(fetch.responses) <= 4
    /\ ( /\ fetch.phase = "failed"
         /\ fetch.responses[Len(fetch.responses)] \in Transient )
       => fetch.retry_count = 3
    /\ \E base \in 1..100 : \A i \in DOMAIN fetch.waits : fetch.waits[i] = base * i

ClientErrors == {"http404", "http400"}

\* C25: a request that receives a 4xx response (404 or another) is not
\* retried: the 4xx response is the last of the call, which reports
\* failure, and a call whose first response is 4xx has sent one request
C25_NoRetryOnClientError ==
    \A i \in DOMAIN fetch.responses :
        fetch.responses[i] \in ClientErrors =>
            /\ i = Len(fetch.responses)
            /\ fetch.phase = "failed"

(***************************************************************************)
(* Properties of the batched writes                                        *)
(***************************************************************************)
\* C26: when a batch commit fails, the batch is abandoned (none of its
\* operations stays in the batch the loop goes on with), the error counter
\* is incremented, and the loop continues with the next batch
C26_FailedBatchAbandoned ==
    bw.failures > 0 =>
        /\ bw.phase # "aborted"
        /\ bw.errors >= bw.failures
        /\ bw.stale = 0

\* C27: every batch a loop commits holds at most 400 operations, counting
\* every operation added to it, and no two commits are in progress at once
C27_BatchWithinCap ==
    /\ bw.largest <= 400
    /\ bw.in_flight <= 1

(***************************************************************************)
(* Properties of the staleness selection.                                  *)
(***************************************************************************)
DueForScan(g, seen) ==
    \/ seen[g] \in {NullInt, AbsentInt}
    \/ seen[g] > 168

\* C28: on an incremental run a grade of the index page is scanned if and
\* only if, when the run started, its last_checked was absent or lay more
\* than a week (168 hours) back
C28_ScannedIffStale ==
    stale.run.variant # "none" =>
        \A g \in stale.page : g \in stale.run.scanned <=> DueForScan(g, stale.run.seen)

\* C29: whatever the schedule of the incremental runs, a grade of the index
\* page whose last team scan lies more than a week back is eventually
\* scanned again
C29_StaleGradeRescanned ==
    \A g \in GradeIds :
        (g \in stale.page /\ stale.last_scanned[g] > 168) ~> (stale.last_scanned[g] = 0)

(***************************************************************************)
(* Properties of the gender rule.                                          *)
(***************************************************************************)
GenderRules == {"classify_item", "determine_gender", "determine_gender_cf"}

Classified == item.variant \in GenderRules /\ item.name \in GenderNames

\* C30: a name holding women, girls or ladies is classified Women; a name
\* holding men or boys, and none of the former, is classified Men; and
\* "Women's Vic League 1" is classified (Senior, Women)
C30_WomenBeforeMen ==
    Classified =>
        /\ AnyOf(item.name, {"women", "girls", "ladies"}) => item.gender = "Women"
        /\ (/\ ~AnyOf(item.name, {"women", "girls", "ladies"})
            /\ AnyOf(item.name, {"men", "boys"})) => item.gender = "Men"
        /\ (item.name = {"women's", "vic league"} /\ item.variant = "classify_item") =>
                item.team_type = "Senior"

====================================================================================
